---- MODULE Spec2Model ----
(***************************************************************************)
(* Audio Selector: the background auto-router / selectDevice               *)
(* (scripts/background.js), its in-memory Helpers.store, and the in-tab     *)
(* sink router AUDIO_SelectDevice (scripts/audio.js).                      *)
(* Also: the tabs.onUpdated listener, Helpers.wildcardToRegExp, the meet    *)
(* commands and MeetTabsManager.setActive (scripts/background.js), and      *)
(* TableRow.save / load of the options page (scripts/TableHelper.js).       *)
(***************************************************************************)
EXTENDS Integers, Sequences, FiniteSets, TLC

\* ---------------------------------------------------------------- bounds
NumElems == 2
MaxRules == 2
MaxManual == 2
NumMeetTabs == 2
MaxGlobLen == 2
NumSetActive == 2
NumRows == 2
MaxLoads == 1

\* ---------------------------------------------------------------- values
Null == "null"
Undefined == "undefined"

Truthy(v) == v \notin {Null, Undefined, ""}

TabIds == {1}
Elems == 1..NumElems

DefaultSink == ""
OutputDevices ==
  { [label |-> "Headphones", deviceId |-> "abc"],
    [label |-> "Speakers", deviceId |-> "def"] }
DeviceIds == {d.deviceId : d \in OutputDevices}
SinkIds == DeviceIds \cup {DefaultSink}

Urls == { <<"a", "b">> }

\* ------------------------------------------------------ Helpers (pure)
\* A string is the sequence of its characters; NonString stands for a value
\* that is no string (a number, an object).
NonString == <<"not a string">>

\* the character class of line 201
EscapeClass == {".", "+", "^", "$", "{", "}", "(", ")", "|", "[", "]", "\\"}

\* The escape step with "." left out of the class.
EscapeCharNoDot(c) ==
  IF c \in EscapeClass \ {"."} THEN <<"\\", c>> ELSE <<c>>

\* "\\$&": a character of the class is preceded by a backslash
EscapeChar(c) ==
  IF c \in EscapeClass THEN <<"\\", c>> ELSE <<c>>

\* .replace(/[.+^${}()|[\]\\]/g, "\\$&")
RECURSIVE EscapeAll(_)
EscapeAll(str) ==
  IF str = <<>> THEN <<>>
  ELSE EscapeChar(Head(str)) \o EscapeAll(Tail(str))

\* .replace(/c/g, by)
RECURSIVE ReplaceChar(_, _, _)
ReplaceChar(str, c, by) ==
  IF str = <<>> THEN <<>>
  ELSE (IF Head(str) = c THEN by ELSE <<Head(str)>>)
       \o ReplaceChar(Tail(str), c, by)

\* The source of the regular expression between "^" and "$"; the empty
\* source is /^$/i.
WildcardToRegExp(pattern) ==
  IF pattern = <<>> \/ pattern = NonString THEN <<>>
  ELSE ReplaceChar(ReplaceChar(EscapeAll(pattern), "*", <<".", "*">>),
                   "?", <<".">>)

LowerCase(ch) ==
  IF ch = "A" THEN "a" ELSE IF ch = "B" THEN "b" ELSE ch

\* Matching of the source from position i against s from position j. The
\* atoms are "\\c" (the character c), "." (any character) and any other
\* character (itself, letters regardless of case); an atom followed by "*"
\* matches any number of times.
RECURSIVE MatchFrom(_, _, _, _)
MatchFrom(re, i, s, j) ==
  IF i > Len(re) THEN j > Len(s)
  ELSE LET esc == re[i] = "\\" /\ i < Len(re)
           w == IF esc THEN 2 ELSE 1
           any == ~esc /\ re[i] = "."
           ch == IF esc THEN re[i + 1] ELSE re[i]
           star == i + w <= Len(re) /\ re[i + w] = "*"
           Ok(k) == any \/ LowerCase(ch) = LowerCase(s[k])
       IN
       IF star
       THEN \E k \in j..(Len(s) + 1) :
              /\ \A m \in j..(k - 1) : Ok(m)
              /\ MatchFrom(re, i + w + 1, s, k)
       ELSE /\ j <= Len(s)
            /\ Ok(j)
            /\ MatchFrom(re, i + w, s, j + 1)

\* RegExp("^" + escaped + "$", "i").test(url)
RegExpTest(re, url) == MatchFrom(re, 1, url, 1)

Key(tabId, label) == "deviceId_per_tab_" \o ToString(tabId) \o label

HelpersGet(st, key, defValue) ==
  IF key \in DOMAIN st /\ st[key] # Undefined THEN st[key] ELSE defValue

HelpersSet(st, key, value) ==
  [k \in (DOMAIN st) \cup {key} |-> IF k = key THEN value ELSE st[k]]

HelpersAdd(arr, value) == Append(arr, value)

HelpersHas(arr, value) == \E i \in 1..Len(arr) : arr[i] = value

IndexOf(arr, value) ==
  IF HelpersHas(arr, value)
  THEN CHOOSE i \in 1..Len(arr) :
         /\ arr[i] = value
         /\ \A j \in 1..(i - 1) : arr[j] # value
  ELSE 0

HelpersRemove(arr, value) ==
  LET index == IndexOf(arr, value) IN
  IF index # 0
  THEN [i \in 1..(Len(arr) - 1) |-> IF i < index THEN arr[i] ELSE arr[i + 1]]
  ELSE arr

\* result[n] of a JavaScript array (0-based n); missing entries are undefined
At(result, n) == IF n + 1 <= Len(result) THEN result[n + 1] ELSE Undefined

\* ------------------------------------------------------ pattern rules
\* The skip test without its "Default" case.
InertNoDefault(p) == p.urlPattern = <<>> \/ ~Truthy(p.audioOutput)

\* autoSelectDevice line 324: the rule is skipped
Inert(p) ==
  \/ p.urlPattern = <<>>
  \/ ~Truthy(p.audioOutput)
  \/ p.audioOutput = "Default"

Rules ==
  { [urlPattern |-> <<"*">>, audioOutput |-> "Default", audioOutputId |-> "abc"],
    [urlPattern |-> <<"*">>, audioOutput |-> "", audioOutputId |-> "def"],
    [urlPattern |-> <<>>, audioOutput |-> "Speakers", audioOutputId |-> "def"],
    [urlPattern |-> <<"a", "?">>, audioOutput |-> "Headphones", audioOutputId |-> "abc"],
    [urlPattern |-> <<"A", "*">>, audioOutput |-> "Speakers", audioOutputId |-> Null],
    [urlPattern |-> <<"b">>, audioOutput |-> "Speakers", audioOutputId |-> "def"] }

PatternLists == UNION { [1..n -> Rules] : n \in 0..MaxRules }

\* Stored entries that are no rule objects: null, and an object without the
\* fields of a rule (they read as undefined).
NullEntry == [null |-> TRUE]
MissingFields ==
  [urlPattern |-> <<>>, audioOutput |-> Undefined, audioOutputId |-> Undefined]

MalformedLists ==
  { <<NullEntry>>, <<MissingFields>>, <<MissingFields, NullEntry>> }

StoredLists == PatternLists \cup MalformedLists

\* A loop that does not stop at the first match (the last match wins).
RECURSIVE FirstMatchLast(_, _, _)
FirstMatchLast(data, tabUrl, i) ==
  IF i > Len(data) THEN 0
  ELSE IF data[i] = NullEntry THEN -1
  ELSE LET rest == FirstMatchLast(data, tabUrl, i + 1) IN
       IF rest # 0 THEN rest
       ELSE IF Inert(data[i]) THEN 0
       ELSE IF RegExpTest(WildcardToRegExp(data[i].urlPattern), tabUrl) THEN i
       ELSE 0

\* The for-of loop of autoSelectDevice from index i on: the index of the rule
\* it calls selectDevice for, 0 when it runs off the end of the list, -1 when
\* it reads a field of a null entry (a TypeError).
RECURSIVE FirstMatch(_, _, _)
FirstMatch(data, tabUrl, i) ==
  IF i > Len(data) THEN 0
  ELSE IF data[i] = NullEntry THEN -1
  ELSE IF Inert(data[i]) THEN FirstMatch(data, tabUrl, i + 1)
  ELSE IF RegExpTest(WildcardToRegExp(data[i].urlPattern), tabUrl) THEN i
  ELSE FirstMatch(data, tabUrl, i + 1)

\* ------------------------------------------------------ in-tab helpers
\* AUDIO_EnumareteDevices: the audiooutput list, entries {label, id}
Enumerated == { [label |-> d.label, id |-> d.deviceId] : d \in OutputDevices }
EnumerationResults == { Enumerated, {} }

\* entry.deviceId of an enumerated entry: the entries carry no such property
EntryDeviceId(entry) == Undefined

\* label.indexOf(sub) >= 0
LabelFragments == {"", "Head", "phones", "Headphones", "Speak", "ers", "Speakers"}
Contains(label, sub) ==
  \E pre \in LabelFragments, post \in LabelFragments : pre \o sub \o post = label

\* line 54 of AUDIO_SelectDevice: the set of entries find() may return
\* (empty: undefined / null)
FindDevice(devices, label, deviceId) ==
  IF devices # {}
  THEN IF Truthy(deviceId)
       THEN { e \in devices : EntryDeviceId(e) = deviceId }
       ELSE IF Truthy(label)
            THEN { e \in devices : Contains(e.label, label) }
            ELSE {}
  ELSE {}

\* selectDevice lines 282-289: the id handed to the tab
ResolveId(st, tabId, label, id) ==
  IF Truthy(label) /\ Truthy(id)
  THEN LET storedId == HelpersGet(st, Key(tabId, label), Null) IN
       IF Truthy(storedId) THEN storedId ELSE id
  ELSE id

\* ---------------------------------------------------------------- state
VARIABLES
  open,               \* open[t]: tab t exists
  url,                \* url[t]: tab.url
  sink,               \* sink[t][e]: el.sinkId of media element e of the page
  phase,              \* phase[t][e]: "playing" | "emptied" (stream lifecycle)
  desired,            \* history: the id the router last set on the element
  manualAudioDevice,  \* Helpers.store["manualAudioDevice"]
  store,              \* Helpers.store, the "deviceId_per_tab_..." keys
  call,               \* the invocations in flight, one per (tab, kind)
  probe,              \* last selectDevice resolution observed (memory spec)
  recorded,           \* history: last id recorded per (tab, label)
  apply,              \* setSinkIdForAll run on a drawn page (routing spec)
  meet,               \* the meet tabs, the focused tab, the manager's flag
  cmd,                \* the meet command in flight
  upd,                \* the last tabs.onUpdated event and what it invoked
  glob,               \* a pattern, a URL and the outcome of the match
  mgr,                \* a MeetTabsManager and its setActive calls
  row                 \* the TableRow objects of the options page

vars == <<open, url, sink, phase, desired, manualAudioDevice,
          store, call, probe, recorded, apply, meet, cmd,
          upd, glob, mgr, row>>

\* the options page, the manager's registration, the event listener
ext == <<upd, glob, mgr, row>>

\* the variables the audio router's actions leave alone
aux == <<apply, meet, cmd, upd, glob, mgr, row>>

Kinds == {"auto", "manual"}
Calls == TabIds \X Kinds

IdleCall ==
  [pc |-> "idle", data |-> <<>>, label |-> "", id |-> "", rule |-> 0, idx |-> 0,
   bResult |-> TRUE, res |-> <<>>, lid |-> "", lidx |-> 0, ret |-> "",
   fault |-> FALSE, overlap |-> FALSE, check |-> "", unres |-> FALSE,
   gone |-> FALSE]

NoProbe == [tab |-> 0, label |-> "", id |-> "", mem |-> Null, sent |-> "",
            found |-> {}]

NoApply ==
  [pc |-> "off", id |-> "", accept |-> <<>>, idx |-> 0, bResult |-> TRUE,
   run |-> 0, before |-> <<>>, after1 |-> <<>>, ret1 |-> TRUE,
   calls |-> {}, failed |-> {}]

MeetTabIds == 1..NumMeetTabs

ClosedMeetTab ==
  [open |-> FALSE, inMeeting |-> FALSE, micMuted |-> FALSE, camMuted |-> FALSE]

NoMeet ==
  [tabs |-> [t \in MeetTabIds |-> ClosedMeetTab], focused |-> 0,
   enabled |-> FALSE]

IdleCmd ==
  [name |-> "", pc |-> "idle", todo |-> <<>>, seen |-> <<>>, target |-> 0,
   ret |-> FALSE, clicks |-> {}, startOne |-> 0, focus0 |-> 0,
   disturbed |-> FALSE, trail |-> <<>>]

NoUpd ==
  [tabId |-> 0, url |-> Undefined, audible |-> FALSE, status |-> Undefined,
   chAudible |-> Undefined, auto |-> 0, inject |-> 0]

NoGlob == [pc |-> "idle", p |-> <<>>, u |-> <<>>, re |-> <<>>, matched |-> FALSE]

SetActiveCalls == 1..NumSetActive

IdleSetActive == [pc |-> "idle", v |-> FALSE, reg |-> "none"]

\* MeetTabsManager constructor lines 348-349; `registered` is the browser's
\* list of registered content scripts, `want` the value of the last call
NoMgr ==
  [enabled |-> FALSE, inProgress |-> FALSE, registered |-> FALSE,
   want |-> FALSE, calls |-> [c \in SetActiveCalls |-> IdleSetActive]]

RowIds == 1..NumRows

\* history: the last call on a row or settlement of one, whether _isSaving
\* was set when it was made, whether the implementation was called, what it
\* resolved to, and _isDirty before it
NoOp == [op |-> "", r |-> 0, busy |-> FALSE, ret |-> FALSE, impl |-> FALSE,
         dirty |-> FALSE]

\* TableRow constructor lines 212-218; saves and loads count the
\* save_implementation and load_implementation promises in flight
NewRow ==
  [isSaving |-> FALSE, isDirty |-> FALSE, autoSave |-> FALSE,
   saves |-> 0, loads |-> 0]

InitExt ==
  /\ upd = NoUpd
  /\ glob = NoGlob
  /\ mgr = NoMgr
  /\ row = [rows |-> [r \in RowIds |-> NewRow], last |-> NoOp]

Init ==
  /\ open = [t \in TabIds |-> FALSE]
  /\ url = [t \in TabIds |-> <<>>]
  /\ sink = [t \in TabIds |-> [e \in Elems |-> DefaultSink]]
  /\ phase = [t \in TabIds |-> [e \in Elems |-> "playing"]]
  /\ desired = [t \in TabIds |-> [e \in Elems |-> DefaultSink]]
  /\ manualAudioDevice = <<>>
  /\ store = << >>
  /\ call = [c \in Calls |-> IdleCall]
  /\ probe = NoProbe
  /\ recorded = << >>
  /\ apply = NoApply
  /\ meet = NoMeet
  /\ cmd = IdleCmd
  /\ InitExt

\* ------------------------------------------------------ tab lifecycle
InTabPcs == {"enum", "setall", "prompt"}
InFlightPcs == InTabPcs \cup {"inject"}

\* A tab with this id appears (a new page: every element on the default sink).
TabCreated(t) ==
  /\ ~open[t]
  /\ open' = [open EXCEPT ![t] = TRUE]
  /\ \E u \in Urls : url' = [url EXCEPT ![t] = u]
  /\ UNCHANGED <<sink, phase, desired, manualAudioDevice, store,
                 call, probe, recorded, aux>>

\* API.tabs.onRemoved listener; the page, its elements and the scripts running
\* in it are gone, a pending executeScript for it fails. The results of the
\* invocations that are over are no longer observed.
TabRemoved(t) ==
  /\ open[t]
  /\ open' = [open EXCEPT ![t] = FALSE]
  /\ manualAudioDevice' = HelpersRemove(manualAudioDevice, t)
  /\ sink' = [sink EXCEPT ![t] = [e \in Elems |-> DefaultSink]]
  /\ phase' = [phase EXCEPT ![t] = [e \in Elems |-> "playing"]]
  /\ desired' = [desired EXCEPT ![t] = [e \in Elems |-> DefaultSink]]
  /\ UNCHANGED url
  /\ call' = [c \in Calls |->
               IF c[1] # t THEN call[c]
               ELSE LET k == [call[c] EXCEPT !.lid = "", !.lidx = 0] IN
                    IF call[c].pc \in InFlightPcs
                    THEN [k EXCEPT !.pc = "reply", !.res = <<>>, !.idx = 0,
                                   !.bResult = TRUE, !.fault = TRUE,
                                   !.gone = TRUE]
                    ELSE IF call[c].pc = "reply"
                    THEN [k EXCEPT !.fault = TRUE]
                    ELSE IF call[c].pc = "done"
                    THEN IdleCall
                    ELSE k]
  /\ UNCHANGED <<store, probe, recorded, aux>>

\* The element's stream is torn down ("emptied" / "ended"): the platform may
\* drop the explicit output selection. No listener is registered for it.
Emptied(t, e) ==
  /\ open[t]
  /\ phase[t][e] = "playing"
  /\ phase' = [phase EXCEPT ![t][e] = "emptied"]
  /\ \E s \in {sink[t][e], DefaultSink} : sink' = [sink EXCEPT ![t][e] = s]
  /\ UNCHANGED <<open, url, desired, manualAudioDevice, store, call,
                 probe, recorded, aux>>

\* The element starts a new stream ("playing"). No listener is registered.
Playing(t, e) ==
  /\ open[t]
  /\ phase[t][e] = "emptied"
  /\ phase' = [phase EXCEPT ![t][e] = "playing"]
  /\ UNCHANGED <<open, url, sink, desired, manualAudioDevice, store,
                 call, probe, recorded, aux>>

\* ------------------------------------------------------ autoSelectDevice
\* The manual-override test left out.
IsManualNever(t) == FALSE

\* autoSelectDevice line 316

IsManual(t) == HelpersHas(manualAudioDevice, t)

\* lines 314-321: up to the await of the storage read
AutoStart(t) ==
  LET c == <<t, "auto">> IN
  /\ open[t]
  /\ call[c].pc = "idle"
  /\ call' = [call EXCEPT ![c] =
       IF url[t] = <<>>
       THEN [IdleCall EXCEPT !.pc = "done", !.ret = "nourl"]
       ELSE IF IsManual(t)
       THEN [IdleCall EXCEPT !.pc = "done", !.ret = "manual"]
       ELSE [IdleCall EXCEPT !.pc = "storage"]]
  /\ UNCHANGED <<open, url, sink, phase, desired, manualAudioDevice,
                 store, probe, recorded, aux>>

\* lines 321-335: the storage read returns data (a stored list out of lists,
\* a stored value that is no array, or the default [] when the read failed)
\* and the loop runs up to the call of selectDevice. An exception in the loop
\* rejects the promise autoSelectDevice returned.
AutoLoop(t, lists) ==
  LET c == <<t, "auto">> IN
  /\ call[c].pc = "storage"
  /\ \E data \in lists, readOk \in BOOLEAN, isArray \in BOOLEAN :
       LET i == FirstMatch(data, url[t], 1) IN
       /\ ~readOk => (data = <<>> /\ isArray)
       /\ ~isArray => data = <<>>
       /\ call' = [call EXCEPT ![c] =
            IF i = -1
            THEN [IdleCall EXCEPT !.pc = "done", !.ret = "rejected"]
            ELSE IF i = 0
            THEN [IdleCall EXCEPT !.pc = "done", !.ret = "nomatch",
                                  !.data = data,
                                  !.fault = ~readOk \/ ~isArray]
            ELSE [@ EXCEPT !.pc = "resolve", !.rule = i, !.data = data,
                           !.label = data[i].audioOutput,
                           !.id = data[i].audioOutputId]]
  /\ UNCHANGED <<open, url, sink, phase, desired, manualAudioDevice,
                 store, probe, recorded, aux>>

\* ------------------------------------------------------ selectDevice
\* commands.onCommand "select-audio-device": selectDevice() for the active tab
ManualStart(t) ==
  LET c == <<t, "manual">> IN
  /\ open[t]
  /\ call[c].pc = "idle"
  /\ Len(manualAudioDevice) < MaxManual
  /\ call' = [call EXCEPT ![c] = [IdleCall EXCEPT !.pc = "resolve"]]
  /\ UNCHANGED <<open, url, sink, phase, desired, manualAudioDevice,
                 store, probe, recorded, aux>>

\* lines 279-289: resolveTab returns; the label memory is consulted
SelectResolved(c) ==
  /\ call[c].pc = "resolve"
  /\ call' = [call EXCEPT ![c] =
       IF c[2] = "manual" /\ ~open[c[1]]
       THEN [IdleCall EXCEPT !.pc = "done", !.res = <<FALSE, Null, Null>>,
                             !.fault = TRUE, !.gone = TRUE]
       ELSE [@ EXCEPT !.pc = "inject", !.data = <<>>,
                      !.id = ResolveId(store, c[1], call[c].label, call[c].id)]]
  /\ UNCHANGED <<open, url, sink, phase, desired, manualAudioDevice,
                 store, probe, recorded, aux>>

\* SelectAudio.executeInTab lines 251-255: injectScript succeeds or fails
Injected(c) ==
  /\ call[c].pc = "inject"
  /\ \E ok \in IF open[c[1]] THEN {TRUE, FALSE} ELSE {FALSE} :
       call' = [call EXCEPT ![c] =
         IF ok THEN [@ EXCEPT !.pc = "enum"]
         ELSE [@ EXCEPT !.pc = "reply", !.res = <<>>, !.fault = TRUE,
                        !.gone = @ \/ ~open[c[1]]]]
  /\ UNCHANGED <<open, url, sink, phase, desired, manualAudioDevice,
                 store, probe, recorded, aux>>

\* ------------------------------------------------------ AUDIO_SelectDevice
\* An iteration that calls setSinkId on every element.
SinkStepOutcomesNoSkip(t, i, id) ==
  { [sinkId |-> sink[t][i], called |-> TRUE, failed |-> TRUE],
    [sinkId |-> id, called |-> TRUE, failed |-> FALSE] }

\* One iteration of setSinkIdForAll(id) on element i: the sinks after it and
\* whether setSinkId was called and rejected. An element already on id is
\* skipped; setSinkId can succeed only for a device the page knows.
SinkStepOutcomes(t, i, id) ==
  IF sink[t][i] = id
  THEN { [sinkId |-> id, called |-> FALSE, failed |-> FALSE] }
  ELSE { [sinkId |-> sink[t][i], called |-> TRUE, failed |-> TRUE] }
       \cup (IF id \in DeviceIds
             THEN { [sinkId |-> id, called |-> TRUE, failed |-> FALSE] }
             ELSE {})

\* lines 47-51: checkSinkIdOnAll(id) calls every() on the NodeList that
\* querySelectorAll returns; a NodeList has no such method, so the call throws
\* whatever the elements are.
CheckSinkIdOnAll(t, id) == "TypeError"

\* A result that reflects the last element only.
NextResultLast(bResult, o) == ~o.failed

\* lines 35, 40-42: bResult after the iteration with outcome o
NextResult(bResult, o) == bResult /\ ~o.failed

\* lines 53-60: the enumeration returns, the device is looked up, and
\* checkSinkIdOnAll is called on a device that was found. When it throws, the
\* script fails and executeInTab returns null.
EnumDone(c) ==
  /\ call[c].pc = "enum"
  /\ \E devices \in EnumerationResults :
       LET found == FindDevice(devices, call[c].label, call[c].id)
           chk == IF found # {} THEN CheckSinkIdOnAll(c[1], Undefined) ELSE ""
       IN
       call' = [call EXCEPT ![c] =
         IF chk = "TypeError"
         THEN [@ EXCEPT !.pc = "reply", !.res = <<>>, !.check = chk]
         ELSE IF chk = "true"
         THEN [@ EXCEPT !.pc = "reply", !.check = chk,
                        !.res = <<TRUE, (CHOOSE e \in found : TRUE).label>>]
         ELSE IF Truthy(call[c].id)
         THEN [@ EXCEPT !.pc = "setall", !.idx = 1, !.bResult = TRUE,
                        !.check = chk, !.fault = @ \/ devices = {}]
         ELSE [@ EXCEPT !.pc = "prompt", !.check = chk,
                        !.fault = @ \/ devices = {},
                        !.unres = Truthy(call[c].label)]]
  /\ UNCHANGED <<open, url, sink, phase, desired, manualAudioDevice,
                 store, probe, recorded, aux>>

\* lines 62-66 with 34-46: one awaited iteration of setSinkIdForAll(deviceId)
SetAllStep(c) ==
  LET t == c[1]
      k == call[c] IN
  /\ k.pc = "setall"
  /\ \E o \in SinkStepOutcomes(t, k.idx, k.id) :
       LET b == NextResult(k.bResult, o) IN
       /\ sink' = [sink EXCEPT ![t][k.idx] = o.sinkId]
       /\ desired' = [desired EXCEPT ![t][k.idx] =
                        IF o.called /\ ~o.failed THEN k.id ELSE @]
       /\ call' = [call EXCEPT ![c] =
            IF k.idx < NumElems
            THEN [@ EXCEPT !.idx = k.idx + 1, !.bResult = b,
                           !.fault = @ \/ o.failed]
            ELSE IF b
            THEN [@ EXCEPT !.pc = "reply", !.idx = 0,
                           !.res = <<TRUE, IF Truthy(k.label) THEN k.label
                                           ELSE "user defined">>]
            ELSE [@ EXCEPT !.pc = "prompt", !.idx = 0, !.bResult = b,
                           !.fault = TRUE]]
  /\ UNCHANGED <<open, url, phase, manualAudioDevice, store, probe,
                 recorded, aux>>

\* lines 68-80: selectAudioOutput settles. Resolved with a device, the page
\* starts setSinkIdForAll(device.deviceId) without awaiting it and returns.
Prompt(c) ==
  /\ call[c].pc = "prompt"
  /\ \/ \E d \in OutputDevices :
          call' = [call EXCEPT ![c] =
            [@ EXCEPT !.pc = "reply", !.res = <<TRUE, d.label>>,
                      !.lid = d.deviceId, !.lidx = 1]]
     \/ call' = [call EXCEPT ![c] =
            [@ EXCEPT !.pc = "reply", !.res = <<FALSE, "NotAllowedError">>,
                      !.fault = TRUE]]
  /\ UNCHANGED <<open, url, sink, phase, desired, manualAudioDevice,
                 store, probe, recorded, aux>>

\* line 75 with 34-46: one iteration of the setSinkIdForAll left running
LoopStep(c) ==
  LET t == c[1]
      k == call[c] IN
  /\ k.lidx > 0
  /\ \E o \in SinkStepOutcomes(t, k.lidx, k.lid) :
       /\ sink' = [sink EXCEPT ![t][k.lidx] = o.sinkId]
       /\ desired' = [desired EXCEPT ![t][k.lidx] =
                        IF o.called /\ ~o.failed THEN k.lid ELSE @]
       /\ call' = [call EXCEPT ![c] =
            [@ EXCEPT !.lidx = IF k.lidx < NumElems THEN k.lidx + 1 ELSE 0,
                      !.fault = @ \/ o.failed]]
  /\ UNCHANGED <<open, url, phase, manualAudioDevice, store, probe,
                 recorded, aux>>

\* ------------------------------------------------------ selectDevice, end
SaveAsManual(c) == c[2] = "manual"

Succeeded(result) == Len(result) > 0 /\ result[1] = TRUE

\* selectDevice lines 294-304 (and autoSelectDevice line 330 for an "auto"
\* call): the result of the tab arrives
Reply(c) ==
  LET t == c[1]
      k == call[c]
      a == <<t, "auto">> IN
  /\ k.pc = "reply"
  /\ IF Succeeded(k.res)
     THEN /\ manualAudioDevice' =
               IF SaveAsManual(c) THEN HelpersAdd(manualAudioDevice, t)
               ELSE manualAudioDevice
          /\ store' = HelpersSet(store, Key(t, At(k.res, 1)), At(k.res, 2))
     ELSE UNCHANGED <<manualAudioDevice, store>>
  /\ call' = [x \in Calls |->
       IF x = c
       THEN [k EXCEPT !.pc = "done",
                      !.ret = IF c[2] = "auto" THEN "selected" ELSE ""]
       ELSE IF /\ x = a
               /\ SaveAsManual(c)
               /\ Succeeded(k.res)
               /\ call[a].pc \in {"storage", "resolve", "inject", "enum"}
       THEN [call[a] EXCEPT !.overlap = TRUE]
       ELSE call[x]]
  /\ UNCHANGED <<open, url, sink, phase, desired, probe, recorded, aux>>

\* The invocation is over and the loop it left running in the page has ended.
Return(c) ==
  /\ call[c].pc = "done"
  /\ call[c].lidx = 0
  /\ call' = [call EXCEPT ![c] = IdleCall]
  /\ UNCHANGED <<open, url, sink, phase, desired, manualAudioDevice,
                 store, probe, recorded, aux>>

Next ==
  \/ \E t \in TabIds : TabCreated(t)
  \/ \E t \in TabIds : TabRemoved(t)
  \/ \E t \in TabIds : AutoStart(t)
  \/ \E t \in TabIds : AutoLoop(t, StoredLists)
  \/ \E t \in TabIds : ManualStart(t)
  \/ \E c \in Calls : SelectResolved(c)
  \/ \E c \in Calls : Injected(c)
  \/ \E c \in Calls : EnumDone(c)
  \/ \E c \in Calls : SetAllStep(c)
  \/ \E c \in Calls : Prompt(c)
  \/ \E c \in Calls : LoopStep(c)
  \/ \E c \in Calls : Reply(c)
  \/ \E c \in Calls : Return(c)

Spec == Init /\ [][Next]_vars

\* The same system with the stream lifecycle events of the media elements,
\* for one stored rule list (or none).
StreamPatterns ==
  << [urlPattern |-> <<"a", "?">>, audioOutput |-> "Headphones",
      audioOutputId |-> "abc"] >>

NextStream ==
  \/ \E t \in TabIds : TabCreated(t)
  \/ \E t \in TabIds : TabRemoved(t)
  \/ \E t \in TabIds, e \in Elems : Emptied(t, e)
  \/ \E t \in TabIds, e \in Elems : Playing(t, e)
  \/ \E t \in TabIds : AutoStart(t)
  \/ \E t \in TabIds : AutoLoop(t, {StreamPatterns, <<>>})
  \/ \E t \in TabIds : ManualStart(t)
  \/ \E c \in Calls : SelectResolved(c)
  \/ \E c \in Calls : Injected(c)
  \/ \E c \in Calls : EnumDone(c)
  \/ \E c \in Calls : SetAllStep(c)
  \/ \E c \in Calls : Prompt(c)
  \/ \E c \in Calls : LoopStep(c)
  \/ \E c \in Calls : Reply(c)
  \/ \E c \in Calls : Return(c)

SpecStream == Init /\ [][NextStream]_vars

\* ------------------------------------------------------ label memory
\* Helpers.get / Helpers.set under the keys selectDevice builds, and the
\* resolution step of selectDevice, on arbitrary tab ids, labels and ids.
MemTabIds == {1, 2, 12}
MemLabels == {"Speakers", "2Speakers"}
\* an id no present device has: a device that was unplugged
StaleId == "gone"
MemIds == DeviceIds \cup {Null, "", StaleId}

LookupLabelId(tabId, label) == HelpersGet(store, Key(tabId, label), Null)

RecordedAt(tabId, label) ==
  IF <<tabId, label>> \in DOMAIN recorded THEN recorded[<<tabId, label>>]
  ELSE Null

\* selectDevice line 298 with a tab result [true, label, id]
RecordLabelId(tabId, label, id) ==
  /\ store' = HelpersSet(store, Key(tabId, label), id)
  /\ recorded' = [k \in (DOMAIN recorded) \cup {<<tabId, label>>} |->
                    IF k = <<tabId, label>> THEN id ELSE recorded[k]]
  /\ UNCHANGED <<open, url, sink, phase, desired, manualAudioDevice,
                 call, probe, aux>>

\* selectDevice lines 282-292 for a resolved tab: the id sent to the tab,
\* and the entry line 54 of AUDIO_SelectDevice finds for it in the tab
SelectProbe(tabId, label, id) ==
  /\ probe' = [tab |-> tabId, label |-> label, id |-> id,
               mem |-> LookupLabelId(tabId, label),
               sent |-> ResolveId(store, tabId, label, id),
               found |-> FindDevice(Enumerated, label,
                                    ResolveId(store, tabId, label, id))]
  /\ UNCHANGED <<open, url, sink, phase, desired, manualAudioDevice,
                 store, call, recorded, aux>>

NextMem ==
  \/ \E t \in MemTabIds, l \in MemLabels, id \in DeviceIds :
       RecordLabelId(t, l, id)
  \/ \E t \in MemTabIds, l \in MemLabels, id \in MemIds :
       SelectProbe(t, l, id)

SpecMem == Init /\ [][NextMem]_vars

\* ------------------------------------------------------ setSinkIdForAll
\* setSinkIdForAll(id) as a function of the page: the elements' sinks and,
\* per element, whether the platform accepts setSinkId(id) on it. It is run
\* twice in a row on a drawn page, nothing else happening.
ApplyTab == 1

\* lines 38-43 on element i of a page whose answer to setSinkId is accept[i]
SinkStep(t, i, id, accept) ==
  { o \in SinkStepOutcomes(t, i, id) : o.called => (o.failed = ~accept[i]) }

InitApply ==
  /\ open = [t \in TabIds |-> TRUE]
  /\ \E u \in Urls : url = [t \in TabIds |-> u]
  /\ sink \in [TabIds -> [Elems -> SinkIds]]
  /\ phase = [t \in TabIds |-> [e \in Elems |-> "playing"]]
  /\ desired = [t \in TabIds |-> [e \in Elems |-> DefaultSink]]
  /\ manualAudioDevice = <<>>
  /\ store = << >>
  /\ call = [c \in Calls |-> IdleCall]
  /\ probe = NoProbe
  /\ recorded = << >>
  /\ \E id \in DeviceIds, accept \in [Elems -> BOOLEAN] :
       apply = [NoApply EXCEPT !.pc = "run", !.id = id, !.accept = accept,
                               !.idx = 1, !.run = 1, !.before = sink[ApplyTab]]
  /\ meet = NoMeet
  /\ cmd = IdleCmd
  /\ InitExt

\* lines 37-44: one iteration of the loop; line 45 after the last one
ApplyStep ==
  /\ apply.pc = "run"
  /\ \E o \in SinkStep(ApplyTab, apply.idx, apply.id, apply.accept) :
       /\ sink' = [sink EXCEPT ![ApplyTab][apply.idx] = o.sinkId]
       /\ apply' = [apply EXCEPT
            !.bResult = NextResult(@, o),
            !.calls = IF o.called THEN @ \cup {apply.idx} ELSE @,
            !.failed = IF o.failed THEN @ \cup {apply.idx} ELSE @,
            !.idx = IF apply.idx < NumElems THEN apply.idx + 1 ELSE 0,
            !.pc = IF apply.idx < NumElems THEN "run" ELSE "ret"]
  /\ UNCHANGED <<open, url, phase, desired, manualAudioDevice, store, call,
                 probe, recorded, meet, cmd, ext>>

\* setSinkIdForAll(id) is called again right after it returned
ApplyAgain ==
  /\ apply.pc = "ret"
  /\ apply.run = 1
  /\ apply' = [apply EXCEPT !.pc = "run", !.run = 2, !.idx = 1,
                            !.bResult = TRUE, !.calls = {}, !.failed = {},
                            !.after1 = sink[ApplyTab], !.ret1 = apply.bResult]
  /\ UNCHANGED <<open, url, sink, phase, desired, manualAudioDevice, store,
                 call, probe, recorded, meet, cmd, ext>>

NextApply == ApplyStep \/ ApplyAgain

SpecApply == InitApply /\ [][NextApply]_vars

\* ------------------------------------------------------ meet commands
\* The Google Meet manager, its tabs and the commands meet-join,
\* meet-toggle-microphone and meet-toggle-camera.
CmdNames == {"join", "mic", "cam"}

OpenMeetTabs == { t \in MeetTabIds : meet.tabs[t].open }

\* the ids of S in ascending order
RECURSIVE SortedSeq(_)
SortedSeq(S) ==
  IF S = {} THEN <<>>
  ELSE LET m == CHOOSE x \in S : \A y \in S : x <= y IN
       <<m>> \o SortedSeq(S \ {m})

\* manager.queryTabs(): the tabs whose URL matches the manager's pattern
QueryTabs == SortedSeq(OpenMeetTabs)

\* tabs.filter(tab => tab.inMeeting) / tabs.filter(tab => !tab.inMeeting)
FilterInMeeting(seen, b) ==
  SelectSeq(seen, LAMBDA x : x.inMeeting = b)

\* MeetJoin lines 760-765: the tab to join, 0 when there is none
JoinChoice(seen) ==
  IF Len(FilterInMeeting(seen, TRUE)) = 0
     /\ Len(FilterInMeeting(seen, FALSE)) = 1
  THEN FilterInMeeting(seen, FALSE)[1].id
  ELSE 0

\* The first tab in a meeting, focused or not.
PickFirstInMeeting(all, focusedTab) ==
  IF Len(all) >= 1 THEN all[1].id ELSE 0

\* GetTabWithInMeeting lines 688-700: the tab returned, 0 for null
PickInMeeting(all, focusedTab) ==
  IF Len(all) = 1 THEN all[1].id
  ELSE IF /\ Len(all) > 1
          /\ \E i \in 1..Len(all) : all[i].id = focusedTab
  THEN focusedTab
  ELSE 0

\* GMeet_joinMeeting returns nothing: the result of the in-tab call
GMeetJoinResult == Undefined

\* a change of the tabs, the focus or the setting while a command runs
Disturb(k) ==
  IF k.pc = "idle" THEN [k EXCEPT !.trail = <<>>]
  ELSE [k EXCEPT !.disturbed = TRUE, !.startOne = 0, !.focus0 = 0,
                 !.trail = <<>>]

routerVars == <<open, url, sink, phase, desired, manualAudioDevice, store,
                call, probe, recorded, apply, upd, glob, mgr, row>>

\* The user opens a meet tab: the page shows the join button.
MeetTabOpened(t) ==
  /\ ~meet.tabs[t].open
  /\ meet' = [meet EXCEPT !.tabs[t].open = TRUE]
  /\ cmd' = Disturb(cmd)
  /\ UNCHANGED routerVars

MeetTabClosed(t) ==
  /\ meet.tabs[t].open
  /\ meet' = [meet EXCEPT !.tabs[t] = ClosedMeetTab,
                          !.focused = IF @ = t THEN 0 ELSE @]
  /\ cmd' = Disturb(cmd)
  /\ UNCHANGED routerVars

\* The user joins or leaves the meeting in the page.
UserJoinsOrLeaves(t) ==
  /\ meet.tabs[t].open
  /\ meet' = [meet EXCEPT !.tabs[t].inMeeting = ~@]
  /\ cmd' = Disturb(cmd)
  /\ UNCHANGED routerVars

\* The user focuses another tab (0: a tab that is no meet tab).
UserFocuses(f) ==
  /\ f # meet.focused
  /\ IF f = 0 THEN TRUE ELSE meet.tabs[f].open
  /\ meet' = [meet EXCEPT !.focused = f]
  /\ cmd' = Disturb(cmd)
  /\ UNCHANGED routerVars

\* MeetTabsManager.setActive: the manager is switched on or off
SetActive(enabled) ==
  /\ meet.enabled # enabled
  /\ meet' = [meet EXCEPT !.enabled = enabled]
  /\ cmd' = Disturb(cmd)
  /\ UNCHANGED routerVars

\* commands.onCommand: the command starts; an enabled manager queries its
\* tabs, a disabled one contributes none
CmdStart(name) ==
  /\ cmd.pc = "idle"
  /\ cmd' = [IdleCmd EXCEPT
       !.name = name, !.pc = "query",
       !.todo = IF meet.enabled THEN QueryTabs ELSE <<>>,
       !.focus0 = meet.focused,
       !.trail = cmd.trail,
       !.startOne =
          IF /\ meet.enabled
             /\ Cardinality(OpenMeetTabs) = 1
             /\ \A t \in OpenMeetTabs : ~meet.tabs[t].inMeeting
          THEN CHOOSE t \in OpenMeetTabs : TRUE
          ELSE 0]
  /\ UNCHANGED <<meet, routerVars>>

\* queryTabsWithState lines 557-562: getState of the next tab; a tab that is
\* gone yields null and is left out
QueryState ==
  /\ cmd.pc = "query"
  /\ cmd.todo # <<>>
  /\ LET t == Head(cmd.todo) IN
     cmd' = [cmd EXCEPT
       !.todo = Tail(@),
       !.seen = IF meet.tabs[t].open
                THEN Append(@, [id |-> t, inMeeting |-> meet.tabs[t].inMeeting])
                ELSE @]
  /\ UNCHANGED <<meet, routerVars>>

\* MeetJoin lines 759-765 / GetTabWithInMeeting lines 688-690: the states are
\* all there
QueryDone ==
  /\ cmd.pc = "query"
  /\ cmd.todo = <<>>
  /\ LET all == FilterInMeeting(cmd.seen, TRUE)
         target == IF cmd.name = "join" THEN JoinChoice(cmd.seen)
                   ELSE IF Len(all) = 1 THEN PickInMeeting(all, 0)
                   ELSE 0
     IN
     cmd' = [cmd EXCEPT
       !.target = target,
       !.pc = IF target # 0 THEN "exec"
              ELSE IF cmd.name # "join" /\ Len(all) > 1 THEN "active"
              ELSE "done"]
  /\ UNCHANGED <<meet, routerVars>>

\* GetTabWithInMeeting lines 692-700: Helpers.activeTab() returns
ActiveTab ==
  /\ cmd.pc = "active"
  /\ LET target == PickInMeeting(FilterInMeeting(cmd.seen, TRUE), meet.focused)
     IN
     cmd' = [cmd EXCEPT !.target = target,
                        !.pc = IF target # 0 THEN "exec" ELSE "done"]
  /\ UNCHANGED <<meet, routerVars>>

\* MeetJoin lines 766-772 with GMeet_joinMeeting; toggleMic / toggleCam with
\* GMeet_switchMic / GMeet_switchCam: the in-tab call and what follows it
Exec ==
  /\ cmd.pc = "exec"
  /\ LET t == cmd.target
         tab == meet.tabs[t]
     IN
     IF cmd.name = "join"
     THEN LET click == tab.open /\ ~tab.inMeeting
              joined == IF tab.open THEN GMeetJoinResult ELSE Null
          IN
          /\ meet' = [meet EXCEPT
               !.tabs[t].inMeeting = IF click THEN TRUE ELSE @,
               !.focused = IF Truthy(joined) /\ tab.open THEN t ELSE @]
          /\ cmd' = [cmd EXCEPT
               !.pc = "done", !.ret = Truthy(joined),
               !.clicks = IF click THEN @ \cup {t} ELSE @]
     ELSE \E r \in BOOLEAN :
          /\ tab.open \/ ~r
          /\ meet' = [meet EXCEPT
               !.tabs[t].micMuted =
                  IF tab.open /\ cmd.name = "mic" THEN ~@ ELSE @,
               !.tabs[t].camMuted =
                  IF tab.open /\ cmd.name = "cam" THEN ~@ ELSE @]
          /\ cmd' = [cmd EXCEPT
               !.pc = "done", !.ret = r,
               !.clicks = IF tab.open THEN @ \cup {t} ELSE @]
  /\ UNCHANGED routerVars

\* The command is over.
CmdReturn ==
  /\ cmd.pc = "done"
  /\ cmd' = [IdleCmd EXCEPT !.trail = cmd.trail]
  /\ UNCHANGED <<meet, routerVars>>

NextMeet ==
  \/ \E t \in MeetTabIds : MeetTabOpened(t)
  \/ \E t \in MeetTabIds : MeetTabClosed(t)
  \/ \E t \in MeetTabIds : UserJoinsOrLeaves(t)
  \/ \E f \in MeetTabIds \cup {0} : UserFocuses(f)
  \/ \E b \in BOOLEAN : SetActive(b)
  \/ \E name \in CmdNames : CmdStart(name)
  \/ QueryState
  \/ QueryDone
  \/ ActiveTab
  \/ Exec
  \/ CmdReturn

SpecMeet == Init /\ [][NextMeet]_vars

\* ------------------------------------------------------ wildcardToRegExp
\* Helpers.wildcardToRegExp(p).test(u) on patterns and URLs over characters
\* that include every character of the escape class and both wildcards.
GlobChars == {"a", "B", "*", "?", ".", "\\"}
UrlChars == {"a", "A", "b", "*", ".", "\\"}
SpecialChars == EscapeClass \cup {"*", "?"}

GlobPatterns ==
  UNION { [1..n -> GlobChars] : n \in 0..MaxGlobLen }
    \cup { <<c>> : c \in SpecialChars } \cup { NonString }

GlobUrls ==
  UNION { [1..n -> UrlChars] : n \in 0..MaxGlobLen }
    \cup { <<c>> : c \in SpecialChars }

\* line 198-204: the pattern is compiled
GlobCompile(p, u) ==
  /\ glob.pc = "idle"
  /\ glob' = [pc |-> "compiled", p |-> p, u |-> u,
              re |-> WildcardToRegExp(p), matched |-> FALSE]
  /\ UNCHANGED <<open, url, sink, phase, desired, manualAudioDevice, store,
                 call, probe, recorded, apply, meet, cmd, upd, mgr, row>>

\* regexp.test(u)
GlobTest ==
  /\ glob.pc = "compiled"
  /\ glob' = [glob EXCEPT !.pc = "tested",
                          !.matched = RegExpTest(glob.re, glob.u)]
  /\ UNCHANGED <<open, url, sink, phase, desired, manualAudioDevice, store,
                 call, probe, recorded, apply, meet, cmd, upd, mgr, row>>

NextGlob ==
  \/ /\ glob.pc = "idle"
     /\ \E p \in GlobPatterns, u \in GlobUrls : GlobCompile(p, u)
  \/ GlobTest

SpecGlob == Init /\ [][NextGlob]_vars

\* ------------------------------------------------------ tabs.onUpdated
UpdTabIds == {1, 2}
UpdUrls ==
  { Undefined, "", "http://a/", "https://a/", "chrome://extensions/",
    "file:///a", "about:blank", "ftp://a/" }
UrlRests == { "://a/", "s://a/" }

\* tab.url.startsWith(prefix)
StartsWith(str, prefix) == \E rest \in UrlRests : prefix \o rest = str

\* autoSelectDevice also on every "complete" event, audible or not.
OnUpdatedAnyComplete(changeInfo, tab) ==
  IF ~Truthy(tab.url) \/ ~StartsWith(tab.url, "http") THEN 0
  ELSE IF changeInfo.status = "complete" THEN 1
  ELSE IF changeInfo.audible = "true" THEN 1
  ELSE 0

\* lines 850-864: the number of autoSelectDevice(tab) invocations
OnUpdatedAutoSelect(changeInfo, tab) ==
  IF ~Truthy(tab.url) \/ ~StartsWith(tab.url, "http") THEN 0
  ELSE IF changeInfo.status = "complete"
       THEN (IF tab.audible THEN 1 ELSE 0)
  ELSE IF changeInfo.audible = "true" THEN 1
  ELSE 0

\* lines 852-856: the number of injectMeetContentScript(tab) invocations
OnUpdatedInject(changeInfo, tab) ==
  IF ~Truthy(tab.url) \/ ~StartsWith(tab.url, "http") THEN 0
  ELSE IF changeInfo.status = "complete" THEN 1
  ELSE 0

\* the listener of tabs.onUpdated runs on an event (tabId, changeInfo, tab);
\* tab carries the state after the change
OnUpdated(tabId, changeInfo, tab) ==
  /\ changeInfo.audible # Undefined
       => tab.audible = (changeInfo.audible = "true")
  /\ upd' = [tabId |-> tabId, url |-> tab.url, audible |-> tab.audible,
             status |-> changeInfo.status, chAudible |-> changeInfo.audible,
             auto |-> OnUpdatedAutoSelect(changeInfo, tab),
             inject |-> OnUpdatedInject(changeInfo, tab)]
  /\ UNCHANGED <<open, url, sink, phase, desired, manualAudioDevice, store,
                 call, probe, recorded, apply, meet, cmd, glob, mgr, row>>

NextUpd ==
  \E tabId \in UpdTabIds,
     changeInfo \in [status : {"complete", "loading", Undefined},
                     audible : {"true", "false", Undefined}],
     tab \in [url : UpdUrls, audible : BOOLEAN] :
    OnUpdated(tabId, changeInfo, tab)

SpecUpd == Init /\ [][NextUpd]_vars

\* ------------------------------------------------------ meet-switch-tab
\* MeetSwitchToNextTab. cmd.trail is history: the tabs that the switch
\* commands run one after the other, nothing else happening, left focused.

\* line 725-726: the tabs in a meeting if there are any, else all tabs
CycleList(seen) ==
  IF Len(FilterInMeeting(seen, TRUE)) > 0 THEN FilterInMeeting(seen, TRUE)
  ELSE seen

\* The first tab of the list, whichever tab is focused.
SwitchTargetFirst(cycleList, focusedId) == cycleList[1].id

\* lines 728-736: the tab after the focused one, the first tab when the
\* focused tab is not in the list
SwitchTarget(cycleList, focusedId) ==
  IF \E i \in 1..Len(cycleList) : cycleList[i].id = focusedId
  THEN LET focusedIndex ==
             CHOOSE i \in 1..Len(cycleList) : cycleList[i].id = focusedId
       IN cycleList[(focusedIndex % Len(cycleList)) + 1].id
  ELSE cycleList[1].id

\* the history after a command that left tab t focused
Trailed(k, t) ==
  IF k.disturbed THEN <<>>
  ELSE IF Len(k.trail) >= Len(CycleList(k.seen)) THEN <<t>>
  ELSE Append(k.trail, t)

\* lines 711-723: the states of all tabs are there
SwitchQueried ==
  /\ cmd.name = "switch"
  /\ cmd.pc = "query"
  /\ cmd.todo = <<>>
  /\ cmd' = IF Len(cmd.seen) = 0
            THEN [cmd EXCEPT !.pc = "done", !.ret = FALSE, !.trail = <<>>]
            ELSE [cmd EXCEPT !.pc = "activeTab"]
  /\ UNCHANGED <<meet, routerVars>>

\* lines 728-741: Helpers.activeTab() returned
SwitchActive ==
  /\ cmd.pc = "activeTab"
  /\ LET target == SwitchTarget(CycleList(cmd.seen), meet.focused) IN
     cmd' = IF target = meet.focused
            THEN [cmd EXCEPT !.pc = "done", !.ret = TRUE, !.target = target,
                             !.trail = Trailed(cmd, target)]
            ELSE [cmd EXCEPT !.pc = "focus", !.target = target]
  /\ UNCHANGED <<meet, routerVars>>

\* line 743 with Helpers.focusTab lines 116-135: windows.update and
\* tabs.update succeed or throw
SwitchFocus(ok) ==
  /\ cmd.pc = "focus"
  /\ ok => meet.tabs[cmd.target].open
  /\ meet' = [meet EXCEPT !.focused = IF ok THEN cmd.target ELSE @]
  /\ cmd' = [cmd EXCEPT !.pc = "done", !.ret = ok,
                        !.trail = IF ok THEN Trailed(cmd, cmd.target)
                                  ELSE <<>>]
  /\ UNCHANGED routerVars

NextSwitch ==
  \/ \E t \in MeetTabIds : MeetTabOpened(t)
  \/ \E t \in MeetTabIds : MeetTabClosed(t)
  \/ \E t \in MeetTabIds : UserJoinsOrLeaves(t)
  \/ \E f \in MeetTabIds \cup {0} : UserFocuses(f)
  \/ \E b \in BOOLEAN : SetActive(b)
  \/ CmdStart("switch")
  \/ QueryState
  \/ SwitchQueried
  \/ SwitchActive
  \/ \E ok \in BOOLEAN : SwitchFocus(ok)
  \/ CmdReturn

SpecSwitch == Init /\ [][NextSwitch]_vars

\* ------------------------------------------------------ setActive
\* MeetTabsManager.setActive and the registration of the manager's content
\* script. The calls are made by checkEnabled (line 447) and by the
\* storage.onChanged listener (line 825).
mgrOthers == <<open, url, sink, phase, desired, manualAudioDevice, store,
               call, probe, recorded, apply, meet, cmd, upd, glob, row>>

\* lines 391-393 and 415: past the wait, the flag is taken
Proceed(m, c, v) ==
  [m EXCEPT !.inProgress = TRUE,
            !.enabled = IF v THEN @ ELSE FALSE,
            !.calls[c] = [pc |-> "get", v |-> v, reg |-> "none"]]

\* lines 374-389: setActive(v) is called; it waits when the manager is in
\* the state asked for or an operation is in progress; the first check()
\* runs at once
SetActiveCall(c, v) ==
  /\ mgr.calls[c].pc \in {"idle", "done", "threw"}
  /\ mgr.calls[c].reg # "pending"
  /\ LET m == [mgr EXCEPT !.want = v] IN
     mgr' = IF mgr.inProgress
            THEN [m EXCEPT !.calls[c] = [pc |-> "wait", v |-> v, reg |-> "none"]]
            ELSE IF mgr.enabled = v
            THEN [m EXCEPT !.calls[c] = [pc |-> "woken", v |-> v, reg |-> "none"]]
            ELSE Proceed(m, c, v)
  /\ UNCHANGED mgrOthers

\* lines 379-386: check() on its 100 ms timer
Poll(c) ==
  /\ mgr.calls[c].pc = "wait"
  /\ ~mgr.inProgress
  /\ mgr' = [mgr EXCEPT !.calls[c].pc = "woken"]
  /\ UNCHANGED mgrOthers

\* lines 391-393: the call resumes after the wait
Resume(c) ==
  /\ mgr.calls[c].pc = "woken"
  /\ mgr' = Proceed(mgr, c, mgr.calls[c].v)
  /\ UNCHANGED mgrOthers

\* lines 395-411 and 417-421, 429-431: getRegisteredContentScripts resolved.
\* Enabling: an already registered script ends the call, otherwise
\* registerContentScripts is started and not awaited. Disabling: a
\* registered script is unregistered, otherwise the flag is released.
GotRegistered(m, c) ==
  LET k == m.calls[c] IN
  IF k.v
  THEN IF m.registered
       THEN [m EXCEPT !.calls[c].pc = "done"]
       ELSE [m EXCEPT !.calls[c].pc = "done", !.calls[c].reg = "pending"]
  ELSE IF m.registered
       THEN [m EXCEPT !.calls[c].pc = "unreg"]
       ELSE [m EXCEPT !.calls[c].pc = "done", !.inProgress = FALSE]

GetResolved(c) ==
  /\ mgr.calls[c].pc = "get"
  /\ mgr' = GotRegistered(mgr, c)
  /\ UNCHANGED mgrOthers

\* getRegisteredContentScripts rejected: enabling has no handler for it
\* (line 395), disabling runs its finally (line 429)
GetRejected(c) ==
  /\ mgr.calls[c].pc = "get"
  /\ mgr' = [mgr EXCEPT !.calls[c].pc = "threw",
                        !.inProgress = IF mgr.calls[c].v THEN @ ELSE FALSE]
  /\ UNCHANGED mgrOthers

\* lines 404-414: registerContentScripts settled
RegisterSettled(c, ok) ==
  /\ mgr.calls[c].reg = "pending"
  /\ ok => ~mgr.registered
  /\ mgr' = [mgr EXCEPT !.calls[c].reg = "none",
                        !.registered = IF ok THEN TRUE ELSE @,
                        !.enabled = ok,
                        !.inProgress = FALSE]
  /\ UNCHANGED mgrOthers

\* lines 421-431: unregisterContentScripts settled
UnregisterSettled(c, ok) ==
  /\ mgr.calls[c].pc = "unreg"
  /\ mgr' = [mgr EXCEPT !.calls[c].pc = "done",
                        !.registered = IF ok THEN FALSE ELSE @,
                        !.inProgress = FALSE]
  /\ UNCHANGED mgrOthers

\* The background page is loaded again: line 662 builds a new manager
\* (lines 343-351); the browser keeps the registered content scripts.
BackgroundLoaded ==
  /\ mgr # [NoMgr EXCEPT !.registered = mgr.registered]
  /\ mgr' = [NoMgr EXCEPT !.registered = mgr.registered]
  /\ UNCHANGED mgrOthers

NextMgr ==
  \/ \E c \in SetActiveCalls, v \in BOOLEAN : SetActiveCall(c, v)
  \/ \E c \in SetActiveCalls : Poll(c)
  \/ \E c \in SetActiveCalls : Resume(c)
  \/ \E c \in SetActiveCalls : GetResolved(c)
  \/ \E c \in SetActiveCalls : GetRejected(c)
  \/ \E c \in SetActiveCalls, ok \in BOOLEAN : RegisterSettled(c, ok)
  \/ \E c \in SetActiveCalls, ok \in BOOLEAN : UnregisterSettled(c, ok)
  \/ BackgroundLoaded

SpecMgr == Init /\ [][NextMgr]_vars

\* ------------------------------------------------------ TableRow
rowOthers == <<open, url, sink, phase, desired, manualAudioDevice, store,
               call, probe, recorded, apply, meet, cmd, upd, glob, mgr>>

\* save() without the guard of line 612.
SaveCallNoGuard(rw) ==
  [rw EXCEPT !.isSaving = TRUE, !.saves = @ + 1]

\* save() lines 612-615 up to the call of save_implementation
SaveCall(rw) ==
  IF rw.isSaving THEN rw
  ELSE [rw EXCEPT !.isSaving = TRUE, !.saves = @ + 1]

\* what save() is observed to do on row r
SaveOp(r) ==
  LET rw == row.rows[r] IN
  [op |-> "save", r |-> r, busy |-> rw.isSaving, ret |-> FALSE,
   impl |-> SaveCall(rw).saves > rw.saves, dirty |-> rw.isDirty]

\* TableRow.save()
Save(r) ==
  /\ row' = [row EXCEPT !.rows[r] = SaveCall(@), !.last = SaveOp(r)]
  /\ UNCHANGED rowOthers

\* lines 615-625: save_implementation resolved to a truthy or falsy result
\* or rejected
SaveSettled(r, outcome) ==
  /\ row.rows[r].saves > 0
  /\ row' = [row EXCEPT
       !.rows[r].isDirty = IF outcome = "truthy" THEN FALSE ELSE @,
       !.rows[r].isSaving = FALSE,
       !.rows[r].saves = @ - 1,
       !.last = [op |-> "saveSettled", r |-> r, busy |-> TRUE,
                 ret |-> (outcome = "truthy"), impl |-> TRUE,
                 dirty |-> row.rows[r].isDirty]]
  /\ UNCHANGED rowOthers

\* TableRow.load() lines 636-639
Load(r) ==
  /\ row.rows[r].isSaving \/ row.rows[r].loads < MaxLoads
  /\ row' = [row EXCEPT
       !.rows[r].loads = IF row.rows[r].isSaving THEN @ ELSE @ + 1,
       !.last = [op |-> "load", r |-> r, busy |-> row.rows[r].isSaving,
                 ret |-> FALSE, impl |-> ~row.rows[r].isSaving,
                 dirty |-> row.rows[r].isDirty]]
  /\ UNCHANGED rowOthers

\* lines 639-648: load_implementation settled
LoadSettled(r, outcome) ==
  /\ row.rows[r].loads > 0
  /\ row' = [row EXCEPT
       !.rows[r].loads = @ - 1,
       !.last = [op |-> "loadSettled", r |-> r, busy |-> FALSE,
                 ret |-> (outcome = "truthy"), impl |-> TRUE,
                 dirty |-> row.rows[r].isDirty]]
  /\ UNCHANGED rowOthers

\* afterAnyChange lines 294-301
AfterAnyChange(r) ==
  /\ row' = [row EXCEPT
       !.rows[r] = IF @.autoSave THEN SaveCall([@ EXCEPT !.isDirty = TRUE])
                   ELSE [@ EXCEPT !.isDirty = TRUE],
       !.last = IF row.rows[r].autoSave THEN SaveOp(r)
                ELSE [NoOp EXCEPT !.op = "change", !.r = r]]
  /\ UNCHANGED rowOthers

\* TableHelper line 695: row.autoSave = this.autoSave
SetAutoSave(r, b) ==
  /\ row.rows[r].autoSave # b
  /\ row' = [row EXCEPT !.rows[r].autoSave = b,
                        !.last = [NoOp EXCEPT !.op = "autoSave", !.r = r]]
  /\ UNCHANGED rowOthers

SaveOutcomes == {"truthy", "falsy", "rejected"}

NextRow ==
  \/ \E r \in RowIds : Save(r)
  \/ \E r \in RowIds, o \in SaveOutcomes : SaveSettled(r, o)
  \/ \E r \in RowIds : Load(r)
  \/ \E r \in RowIds, o \in SaveOutcomes : LoadSettled(r, o)
  \/ \E r \in RowIds : AfterAnyChange(r)
  \/ \E r \in RowIds, b \in BOOLEAN : SetAutoSave(r, b)

SpecRow == Init /\ [][NextRow]_vars

\* ====================================================== claims
Auto(t) == call[<<t, "auto">>]
Manual(t) == call[<<t, "manual">>]
InManualSet(t) == \E i \in 1..Len(manualAudioDevice) : manualAudioDevice[i] = t
AllOn(t, id) == \A e \in Elems : sink[t][e] = id

\* C1: an autoSelectDevice that starts for a tab which is in the
\* manual-override set returns at once (false, the "manual" return), without
\* reaching selectDevice and without changing any sink id.
C1_ManualOverridePrecedence ==
  [][\A t \in TabIds :
       (InManualSet(t) /\ Auto(t).pc = "idle" /\ call'[<<t, "auto">>].pc # "idle")
       => /\ call'[<<t, "auto">>].pc = "done"
          /\ call'[<<t, "auto">>].ret \in {"manual", "nourl"}
          /\ call'[<<t, "auto">>].rule = 0
          /\ sink' = sink]_vars

C1_Witness ==
  \E t \in TabIds :
    InManualSet(t) /\ open[t] /\ Auto(t).pc = "done" /\ Auto(t).ret = "manual"

\* C2 (as claimed): when a manual selection for the tab succeeded while an
\* autoSelectDevice for it was suspended at an await, then after both are over
\* (and the manual selection's own sink assignments all succeeded) every media
\* element of the tab is on the manually chosen id.
C2_ManualWinsOverSuspendedAuto ==
  \A t \in TabIds :
    ( /\ open[t]
      /\ Auto(t).pc = "done" /\ Auto(t).lidx = 0 /\ Auto(t).overlap
      /\ Manual(t).pc = "done" /\ Manual(t).lidx = 0
      /\ Succeeded(Manual(t).res) /\ ~Manual(t).fault
      /\ Manual(t).lid # "" )
    => AllOn(t, Manual(t).lid)

\* the device id a rule label resolves to by enumeration
IdOfLabel(label) ==
  IF \E d \in OutputDevices : Contains(d.label, label)
  THEN (CHOOSE d \in OutputDevices : Contains(d.label, label)).deviceId
  ELSE Null

\* C3 (as claimed): after an autoSelectDevice that matched a rule with a
\* non-default device is over, with no platform failure and no manual
\* selection for the tab, every media element is on the id resolved from the
\* rule's device (its stored id, else the id of the device of that label).
C3_AutoRoutingTakesEffect ==
  \A t \in TabIds :
    ( /\ open[t]
      /\ Auto(t).pc = "done" /\ Auto(t).ret = "selected" /\ Auto(t).lidx = 0
      /\ ~Auto(t).fault /\ ~Auto(t).overlap
      /\ ~InManualSet(t) /\ Manual(t).pc = "idle" )
    => AllOn(t, IF Truthy(Auto(t).id) THEN Auto(t).id
                ELSE IdOfLabel(Auto(t).label))

\* C4 (as claimed): an element the router put on id X is on X again once its
\* stream has been torn down and is playing again.
C4_StreamRestartRecovery ==
  \A t \in TabIds, e \in Elems :
    (open[t] /\ phase[t][e] = "playing" /\ desired[t][e] # DefaultSink)
    => sink[t][e] = desired[t][e]

\* C5 (as claimed): when the tab is removed, it is no longer in the
\* manual-override set.
C5_CloseClearsManual ==
  [][\A t \in TabIds : (open[t] /\ ~open'[t]) => ~InManualSet(t)']_vars

\* C6 (as claimed): when the tab is removed, no label-memory entry keyed by
\* the tab remains in the store.
C6_CloseClearsLabelMemory ==
  [][\A t \in TabIds :
       (open[t] /\ ~open'[t])
       => \A d \in OutputDevices : Key(t, d.label) \notin DOMAIN store']_vars

ClaimInert(p) ==
  p.audioOutput = "Default" \/ p.audioOutput = "" \/ p.urlPattern = <<>>

EffectiveMatches(t) ==
  { i \in 1..Len(Auto(t).data) :
      /\ ~ClaimInert(Auto(t).data[i])
      /\ RegExpTest(WildcardToRegExp(Auto(t).data[i].urlPattern), url[t]) }

AppliedId(k) == IF k.lid # "" THEN k.lid ELSE k.id

\* C11 (as claimed): when selectDevice(tab, label, id) gets a success result,
\* the label memory of (tab, label) afterwards holds the id that was applied,
\* a defined non-empty id.
C11_LabelMemoryWritten ==
  [][\A c \in Calls :
       ( /\ call[c].pc = "reply" /\ call'[c].pc = "done"
         /\ Succeeded(call[c].res) /\ Truthy(call[c].label) )
       => LET v == HelpersGet(store', Key(c[1], call[c].label), Null) IN
          Truthy(v) /\ v = AppliedId(call[c])]_vars

\* C12 (as claimed): a selection whose device is given by label only, with no
\* enumerated device of that label, reports failure and moves no media
\* element to another sink.
C12_UnresolvableLeavesRouting ==
  [][\A c \in Calls :
       call[c].unres
       => /\ (call[c].pc = "reply" /\ call'[c].pc = "done")
             => ~Succeeded(call[c].res)
          /\ (call'[c].lidx # call[c].lidx /\ open'[c[1]])
             => sink' = sink]_vars

\* C14 (as claimed): a call of checkSinkIdOnAll returns true or false, it
\* never throws.
C14_CheckAllOnNeverThrows ==
  \A c \in Calls : call[c].check # "" => call[c].check \in {"true", "false"}

\* C16 (as claimed): once an automatic and a manual selection for the same
\* tab, with different ids, are both over and every setSinkId they called
\* succeeded, all media elements of the tab are on one of the two ids; no
\* element is on one id while another is on the other.
C16_LastWriteWins ==
  \A t \in TabIds :
    ( /\ open[t]
      /\ Auto(t).pc = "done" /\ Auto(t).lidx = 0
      /\ Succeeded(Auto(t).res) /\ ~Auto(t).fault
      /\ Manual(t).pc = "done" /\ Manual(t).lidx = 0
      /\ Succeeded(Manual(t).res) /\ ~Manual(t).fault
      /\ AppliedId(Auto(t)) # AppliedId(Manual(t)) )
    => \/ AllOn(t, AppliedId(Auto(t)))
       \/ AllOn(t, AppliedId(Manual(t)))

C13_ApplyResult ==
  apply.pc = "ret"
  => /\ apply.bResult => AllOn(ApplyTab, apply.id)
     /\ apply.failed # {}
        => /\ ~apply.bResult
           /\ \A e \in Elems \ apply.failed : sink[ApplyTab][e] = apply.id

C13_Witness ==
  /\ apply.pc = "ret"
  /\ apply.run = 1
  /\ 1 \in apply.failed
  /\ \E e \in Elems :
       e > 1 /\ apply.before[e] # apply.id /\ sink[ApplyTab][e] = apply.id

\* C15: a second run of setSinkIdForAll(id) right after the first leaves every
\* media element on the sink it had, returns what the first run returned, and
\* calls setSinkId on no element that was already on id.
C15_ApplyIdempotent ==
  (apply.pc = "ret" /\ apply.run = 2)
  => /\ sink[ApplyTab] = apply.after1
     /\ apply.bResult = apply.ret1
     /\ \A e \in apply.calls : apply.after1[e] # apply.id

C15_Witness ==
  /\ apply.pc = "ret"
  /\ apply.run = 2
  /\ apply.calls # {}
  /\ \E e \in Elems : apply.before[e] # apply.id /\ sink[ApplyTab][e] = apply.id

\* C17 (as claimed): the promise autoSelectDevice returns is never rejected,
\* whatever the stored value of "patterns" is and whatever fails.
C17_AutoNeverRejects ==
  \A t \in TabIds : Auto(t).ret # "rejected"

\* the tabs of the enabled manager that are in a meeting
InMeetingNow ==
  IF meet.enabled
  THEN { t \in MeetTabIds : meet.tabs[t].open /\ meet.tabs[t].inMeeting }
  ELSE {}

\* the tab the toggle commands are to act on, 0 when there is none
ToggleTarget ==
  IF Cardinality(InMeetingNow) = 1 THEN CHOOSE t \in InMeetingNow : TRUE
  ELSE IF meet.focused \in InMeetingNow THEN meet.focused
  ELSE 0

\* C19 (as claimed): a MeetJoin that ran with the tabs, the focus and the
\* setting otherwise unchanged has, when exactly one meet tab was open and
\* none was in a meeting, joined in that tab, focused it and returned true;
\* in every other configuration it joined nothing, left the focus alone and
\* returned false.
C19_JoinShortcut ==
  (cmd.name = "join" /\ cmd.pc = "done" /\ ~cmd.disturbed)
  => IF cmd.startOne # 0
     THEN /\ cmd.clicks = {cmd.startOne}
          /\ meet.focused = cmd.startOne
          /\ cmd.ret = TRUE
     ELSE /\ cmd.clicks = {}
          /\ meet.focused = cmd.focus0
          /\ cmd.ret = FALSE

C24_AutoResultMeansSelected ==
  \A t \in TabIds :
    (Auto(t).pc = "done" /\ Auto(t).ret = "selected")
    => Succeeded(Auto(t).res)

\* C28 (as claimed): the id of a tab that is closed is not in the
\* manual-override set, also when a selection for it completes after the
\* tab's onRemoved event.
C28_ManualSetOnlyLiveTabs ==
  \A t \in TabIds : InManualSet(t) => open[t]

\* C29 (as claimed): when a manual selection succeeded while an automatic one
\* for the same tab was under way, both came back with the same label and
\* every setSinkId they called succeeded, then once both are over the label
\* memory of (tab, label) holds the sink id the tab's media elements are on.
C29_LabelMemoryMatchesPage ==
  \A t \in TabIds :
    ( /\ open[t]
      /\ Auto(t).pc = "done" /\ Auto(t).lidx = 0 /\ Auto(t).overlap
      /\ Succeeded(Auto(t).res) /\ ~Auto(t).fault
      /\ Manual(t).pc = "done" /\ Manual(t).lidx = 0
      /\ Succeeded(Manual(t).res) /\ ~Manual(t).fault
      /\ At(Auto(t).res, 1) = At(Manual(t).res, 1) )
    => LET m == HelpersGet(store, Key(t, At(Auto(t).res, 1)), Null) IN
       Truthy(m) /\ AllOn(t, m)

\* C23 (as claimed): with both a label and an id handed to the tab, the
\* lookup in the enumerated list finds the device whose id equals the id
\* and, when no device has that id, the device whose label contains the
\* requested label.
ClaimedDevice(label, id) ==
  LET byId == { e \in Enumerated : e.id = id } IN
  IF byId # {} THEN byId
  ELSE { e \in Enumerated : Contains(e.label, label) }

C23_IdThenLabel ==
  (probe.tab # 0 /\ Truthy(probe.label) /\ Truthy(probe.sent))
  => probe.found = ClaimedDevice(probe.label, probe.sent)

\* C25: wildcardToRegExp(p).test(u) is TRUE exactly when u, as a whole, is p
\* with each "*" standing for any run of characters, each "?" for one
\* character and every other character for itself, letters regardless of
\* case; for a p that is missing or no string only the empty u is accepted.
SameLetter(a, b) == a = b \/ {a, b} \in { {"a", "A"}, {"b", "B"} }

RECURSIVE GlobAccepts(_, _, _, _)
GlobAccepts(p, i, u, j) ==
  IF i > Len(p) THEN j > Len(u)
  ELSE IF p[i] = "*"
       THEN \E k \in j..(Len(u) + 1) : GlobAccepts(p, i + 1, u, k)
  ELSE /\ j <= Len(u)
       /\ (p[i] = "?" \/ SameLetter(p[i], u[j]))
       /\ GlobAccepts(p, i + 1, u, j + 1)

C25_GlobMatcher ==
  glob.pc = "tested"
  => glob.matched = (IF glob.p = NonString THEN glob.u = <<>>
                     ELSE GlobAccepts(glob.p, 1, glob.u, 1))

\* C25 witness: a pattern with an escaped character and a wildcard was
\* tested against a URL it matches.
C25_Witness ==
  /\ glob.pc = "tested"
  /\ glob.p = <<".", "*">>
  /\ glob.u = <<".", "a">>
  /\ glob.matched

\* C22 (amended): the listener invokes autoSelectDevice for no tab whose
\* URL is missing or does not start with http; for another tab it invokes
\* it once on a "complete" event when the tab is audible, once on an event
\* that is not "complete" and reports the tab audible, and not otherwise.
IsHttpUrl(u) == u \in {"http://a/", "https://a/"}

C22_TriggerWhenAudible ==
  upd.tabId # 0
  => upd.auto =
       IF /\ IsHttpUrl(upd.url)
          /\ \/ upd.status = "complete" /\ upd.audible
             \/ upd.status # "complete" /\ upd.chAudible = "true"
       THEN 1 ELSE 0

\* C22 witness: a "complete" event of an http tab that is not audible
\* invoked nothing.
C22_Witness ==
  /\ upd.tabId # 0
  /\ IsHttpUrl(upd.url)
  /\ upd.status = "complete"
  /\ ~upd.audible
  /\ upd.auto = 0

\* C22 (as claimed): autoSelectDevice is invoked for no tab whose URL is
\* missing or not http(s), and for an http(s) tab on every "complete" event
\* and on every event reporting the tab audible.
C22_TriggerOnEveryComplete ==
  upd.tabId # 0
  => /\ ~IsHttpUrl(upd.url) => upd.auto = 0
     /\ ( /\ IsHttpUrl(upd.url)
          /\ (upd.status = "complete" \/ upd.chAudible = "true") )
        => upd.auto >= 1

\* every setActive call made has returned and no registration is pending
SetActiveSettled ==
  /\ \A c \in SetActiveCalls :
       mgr.calls[c].pc \in {"idle", "done"} /\ mgr.calls[c].reg = "none"
  /\ \E c \in SetActiveCalls : mgr.calls[c].pc = "done"

\* C26 (as claimed): once the setActive calls have returned and the
\* registrations they started have settled, _enablingInProgress is false.
C26_FlagReleased ==
  SetActiveSettled => ~mgr.inProgress

\* C27 (as claimed): once the setActive calls have settled, the last of them
\* being setActive(v), with the script registered when v is true, isEnabled()
\* is v.
C27_EnabledFollowsSetting ==
  (SetActiveSettled /\ (mgr.want => mgr.registered))
  => mgr.enabled = mgr.want

\* the tabs MeetSwitchToNextTab is to cycle through, as the claim has them
CycleNow ==
  LET all == IF meet.enabled THEN OpenMeetTabs ELSE {}
      inM == { t \in all : meet.tabs[t].inMeeting }
  IN IF inM # {} THEN inM ELSE all

NextInCycle(S, f) ==
  LET first == CHOOSE x \in S : \A y \in S : x <= y
      after == { x \in S : x > f }
  IN IF f \in S /\ after # {}
     THEN CHOOSE x \in after : \A y \in after : x <= y
     ELSE first

C30_SingleFlightSave ==
  /\ \A r \in RowIds :
       /\ row.rows[r].saves <= 1
       /\ row.rows[r].isSaving = (row.rows[r].saves = 1)
  /\ (row.last.op \in {"save", "load"} /\ row.last.busy)
     => ~row.last.ret /\ ~row.last.impl
  /\ row.last.op = "saveSettled"
     => /\ ~row.rows[row.last.r].isSaving
        /\ (row.last.dirty /\ ~row.last.ret) => row.rows[row.last.r].isDirty

\* C30 witness: a save() was made on a row whose save was in flight.
C30_Witness ==
  /\ row.last.op = "save"
  /\ row.last.busy
  /\ row.rows[row.last.r].saves = 1
  /\ row.rows[row.last.r].isDirty

====
